---------------------------- MODULE Spec2Model ----------------------------
(***************************************************************************)
(* A model of Vesktop's screen-share picker                               *)
(* (src/renderer/components/ScreenSharePicker.tsx): the audio-source       *)
(* selection engine, the submit path with its calls to the native audio   *)
(* backend, the STREAM_CLOSE subscriber, the delayed constraint step and   *)
(* the process-wide currentSettings.                                       *)
(***************************************************************************)
EXTENDS Naturals, Sequences, FiniteSets, TLC

(***************************************************************************)
(* JavaScript values.  Every value of the model is a string, so that two   *)
(* values can always be compared.  Undefined stands for the value          *)
(* undefined, Absent marks a key an object does not have.                  *)
(***************************************************************************)
Undefined == "<undefined>"

Absent == "<absent>"

\* if (v): undefined and the empty string are falsy, other strings truthy.
Truthy(v) == v # Undefined /\ v # ""

\* `${v}` in a template literal.
Str(v) == IF v = Undefined THEN "undefined" ELSE v

(***************************************************************************)
(* Nodes and patterns: objects over the five well-known property keys.     *)
(* An object is a function on Keys whose value at a key is Absent when the *)
(* object has no such key.                                                 *)
(***************************************************************************)
K_NAME == "application.name"

K_BINARY == "application.process.binary"

K_PID == "application.process.id"

K_MEDIA_NAME == "media.name"

K_MEDIA_CLASS == "media.class"

Keys == {K_NAME, K_BINARY, K_PID, K_MEDIA_NAME, K_MEDIA_CLASS}

EmptyObject == [k \in Keys |-> Absent]

\* Object.keys(o)
ObjectKeys(o) == {k \in Keys : o[k] # Absent}

\* o[key]: reading a key the object lacks gives undefined.
Read(o, key) == IF o[key] = Absent THEN Undefined ELSE o[key]

\* { ...o, [key]: v }: the key exists afterwards, even when v is undefined.
Spread(o, key, v) == [o EXCEPT ![key] = v]

\* A node as the backend reports it: a key is there iff it has a value.
MkNode(name, binary, pid, mediaName, mediaClass) ==
    [k \in Keys |-> CASE k = K_NAME -> name
                      [] k = K_BINARY -> binary
                      [] k = K_PID -> pid
                      [] k = K_MEDIA_NAME -> mediaName
                      [] k = K_MEDIA_CLASS -> mediaClass]

(***************************************************************************)
(* AudioSource = SpecialSource | Node and AudioSources = SpecialSource |   *)
(* Node[] (and undefined), as tagged records: kind is the string itself    *)
(* for a SpecialSource.                                                    *)
(***************************************************************************)
SpecialSources == <<"None", "Entire System">>

SpecialSource(s) == [kind |-> s, node |-> EmptyObject, list |-> <<>>]

NodeSource(n) == [kind |-> "node", node |-> n, list |-> <<>>]

NodeList(l) == [kind |-> "list", node |-> EmptyObject, list |-> l]

NoSources == [kind |-> "undefined", node |-> EmptyObject, list |-> <<>>]

\* typeof value === "string"
isSpecialSource(value) == value.kind \in {"None", "Entire System"}

\* value.every(key => value[key] === other[key])
hasMatchingProps(value, other) ==
    \A key \in ObjectKeys(value) : Read(value, key) = Read(other, key)

AudioItem(name, value) == [name |-> name, value |-> value]

\* The granular part with each refinement built on the item before it.
mapGranular_Combined(node, rtn) ==
    LET name == Read(node, K_NAME)
        binary == Read(node, K_BINARY)
        rtn2 == IF ~Truthy(name)
                THEN Append(rtn, AudioItem(binary,
                         NodeSource(Spread(EmptyObject, K_BINARY, binary))))
                ELSE rtn
        pid == Read(node, K_PID)
        first == rtn2[1]
        rtn3 == Append(rtn2, AudioItem(
                    Str(first.name) \o " (" \o Str(pid) \o ")",
                    NodeSource(Spread(first.value.node, K_PID, pid))))
        mediaName == Read(node, K_MEDIA_NAME)
        rtn4 == IF Truthy(mediaName)
                THEN Append(rtn3, AudioItem(
                         Str(first.name) \o " [" \o Str(mediaName) \o "]",
                         NodeSource(Spread(rtn3[Len(rtn3)].value.node,
                                           K_MEDIA_NAME, mediaName))))
                ELSE rtn3
        mediaClass == Read(node, K_MEDIA_CLASS)
    IN  IF ~Truthy(mediaClass)
        THEN rtn4
        ELSE Append(rtn4, AudioItem(
                 Str(first.name) \o " [" \o Str(mediaClass) \o "]",
                 NodeSource(Spread(rtn4[Len(rtn4)].value.node,
                                   K_MEDIA_CLASS, mediaClass))))

\* mapToAudioItem, after the special-source return and with granularSelect
\* set: the binary fallback, then the pid, media.name and media.class items.
mapGranular(node, rtn) ==
    LET name == Read(node, K_NAME)
        binary == Read(node, K_BINARY)
        rtn2 == IF ~Truthy(name)
                THEN Append(rtn, AudioItem(binary,
                         NodeSource(Spread(EmptyObject, K_BINARY, binary))))
                ELSE rtn
        pid == Read(node, K_PID)
        first == rtn2[1]
        firstValues == first.value.node
        rtn3 == Append(rtn2, AudioItem(
                    Str(first.name) \o " (" \o Str(pid) \o ")",
                    NodeSource(Spread(firstValues, K_PID, pid))))
        mediaName == Read(node, K_MEDIA_NAME)
        rtn4 == IF Truthy(mediaName)
                THEN Append(rtn3, AudioItem(
                         Str(first.name) \o " [" \o Str(mediaName) \o "]",
                         NodeSource(Spread(firstValues, K_MEDIA_NAME, mediaName))))
                ELSE rtn3
        mediaClass == Read(node, K_MEDIA_CLASS)
    IN  IF ~Truthy(mediaClass)
        THEN rtn4
        ELSE Append(rtn4, AudioItem(
                 Str(first.name) \o " [" \o Str(mediaClass) \o "]",
                 NodeSource(Spread(firstValues, K_MEDIA_CLASS, mediaClass))))

mapToAudioItem(source, granularSelect) ==
    IF isSpecialSource(source)
    THEN <<AudioItem(source.kind, source)>>
    ELSE LET name == Read(source.node, K_NAME)
             rtn == IF Truthy(name)
                    THEN <<AudioItem(name,
                             NodeSource(Spread(EmptyObject, K_NAME, name)))>>
                    ELSE <<>>
         IN  IF ~granularSelect THEN rtn ELSE mapGranular(source.node, rtn)

\* Array.prototype.flat over the per-source item lists.
RECURSIVE Flat(_)
Flat(lists) ==
    IF lists = <<>> THEN <<>> ELSE Head(lists) \o Flat(Tail(lists))

\* list.findIndex(x => x.name === name), 1-based; 0 when there is none.
FindIndexByName(list, name) ==
    IF \E i \in 1..Len(list) : list[i].name = name
    THEN CHOOSE i \in 1..Len(list) :
             /\ list[i].name = name
             /\ \A j \in 1..(i - 1) : list[j].name # name
    ELSE 0

\* uniqueName keeping the last item of each name.
uniqueName_KeepsLast(list, index) ==
    \A j \in (index + 1)..Len(list) : list[j].name # list[index].name

\* uniqueName(value, index, list)
uniqueName(list, index) == FindIndexByName(list, list[index].name) = index

\* list.filter(uniqueName)
RECURSIVE FilterUnique(_, _)
FilterUnique(list, index) ==
    IF index > Len(list) THEN <<>>
    ELSE (IF uniqueName(list, index) THEN <<list[index]>> ELSE <<>>)
         \o FilterUnique(list, index + 1)

\* allSources of a successful enumeration: the special sources, then the targets.
AllSources(targets) ==
    [i \in 1..Len(SpecialSources) |-> SpecialSource(SpecialSources[i])]
    \o [i \in 1..Len(targets) |-> NodeSource(targets[i])]

\* The options handed to Select: map, flat, filter(uniqueName).
SelectOptions(targets, granularSelect) ==
    LET all == AllSources(targets)
        mapped == [i \in 1..Len(all) |-> mapToAudioItem(all[i], granularSelect)]
    IN  FilterUnique(Flat(mapped), 1)

\* isSelected finding no pattern of the list selected.
isSelected_NoPattern(audioSources, value) ==
    IF audioSources.kind = "undefined" THEN FALSE
    ELSE IF isSpecialSource(audioSources) \/ isSpecialSource(value)
         THEN audioSources.kind = value.kind
         ELSE FALSE

\* isSelected of AudioSourcePickerLinux
isSelected(audioSources, value) ==
    IF audioSources.kind = "undefined" THEN FALSE
    ELSE IF isSpecialSource(audioSources) \/ isSpecialSource(value)
         THEN audioSources.kind = value.kind
         ELSE \E i \in 1..Len(audioSources.list) :
                  hasMatchingProps(audioSources.list[i], value.node)

\* The filter with the arguments of hasMatchingProps exchanged.
FilterOrNone_Reversed(audioSources, value) ==
    IF audioSources.kind = "undefined"
    THEN SpecialSource("None")
    ELSE LET Keep(x) == ~hasMatchingProps(value.node, x)
         IN  NodeList(SelectSeq(audioSources.list, Keep))

\* audioSources?.filter(x => !hasMatchingProps(x, value)) ?? "None": an array,
\* even an empty one, is not nullish, so the fallback applies to undefined only.
FilterOrNone(audioSources, value) ==
    IF audioSources.kind = "undefined"
    THEN SpecialSource("None")
    ELSE LET Keep(x) == ~hasMatchingProps(x, value.node)
         IN  NodeList(SelectSeq(audioSources.list, Keep))

\* update with its second branch leaving a special selection as it is.
update_KeepsSpecial(audioSources, value) ==
    IF isSpecialSource(value) THEN SpecialSource(value.kind)
    ELSE IF isSpecialSource(audioSources) THEN audioSources
    ELSE IF isSelected(audioSources, value) THEN FilterOrNone(audioSources, value)
    ELSE NodeList((IF audioSources.kind = "undefined" THEN <<>>
                   ELSE audioSources.list) \o <<value.node>>)

\* update of AudioSourcePickerLinux: the value handed to setAudioSources.
update(audioSources, value) ==
    IF isSpecialSource(value) THEN SpecialSource(value.kind)
    ELSE IF isSpecialSource(audioSources) THEN NodeList(<<value.node>>)
    ELSE IF isSelected(audioSources, value) THEN FilterOrNone(audioSources, value)
    ELSE NodeList((IF audioSources.kind = "undefined" THEN <<>>
                   ELSE audioSources.list) \o <<value.node>>)

(***************************************************************************)
(* Quality: the two user choices and what is derived from them.            *)
(***************************************************************************)
StreamResolutions == <<"480", "720", "1080", "1440">>

StreamFps == <<"15", "30", "60">>

ContentHints == <<"motion", "detail">>

\* Number(s) for the strings of StreamResolutions and StreamFps.
Number(s) ==
    CASE s = "480" -> 480 [] s = "720" -> 720 [] s = "1080" -> 1080
      [] s = "1440" -> 1440 [] s = "15" -> 15 [] s = "30" -> 30 [] s = "60" -> 60

\* The width of a 4:3 picture.
RoundWidth_FourThirds(height) == (4 * height) \div 3

\* Math.round(height * (16 / 9)): the nearest integer, a half rounding up.
RoundWidth(height) == (2 * 16 * height + 9) \div (2 * 9)

\* The per-stream options object the host hands to the hook: the three bitrate
\* fields, an optional encode sub-object (<<>> when there is none) and the
\* capture sub-object, each holding framerate, width, height and pixelCount.
QualityFields(framerate, width, height) ==
    [framerate |-> framerate, width |-> width, height |-> height,
     pixelCount |-> height * width]

\* The hook leaving the encode sub-object as it finds it.
patchStreamQuality_CaptureOnly(o, cs) ==
    IF cs = <<>> THEN o
    ELSE LET framerate == Number(cs[1].fps)
             height == Number(cs[1].resolution)
             width == RoundWidth(height)
         IN  [bitrateMin |-> 500000, bitrateMax |-> 8000000,
              bitrateTarget |-> 600000,
              encode |-> o.encode,
              capture |-> QualityFields(framerate, width, height)]

\* patchStreamQuality(opts) with currentSettings = cs (<<>> is null): the
\* object as the hook leaves it.
patchStreamQuality(o, cs) ==
    IF cs = <<>> THEN o
    ELSE LET framerate == Number(cs[1].fps)
             height == Number(cs[1].resolution)
             width == RoundWidth(height)
         IN  [bitrateMin |-> 500000, bitrateMax |-> 8000000,
              bitrateTarget |-> 600000,
              encode |-> IF o.encode # <<>>
                         THEN <<QualityFields(framerate, width, height)>>
                         ELSE o.encode,
              capture |-> QualityFields(framerate, width, height)]

\* useState<StreamSettings>({...}) of ModalComponent
InitialSettings ==
    [resolution |-> "1080", fps |-> "60", contentHint |-> "motion",
     audio |-> TRUE, audioSources |-> NoSources]

\* setSettings(s => ({ ...s, audioSources: sources }))
WithAudioSources(s, sources) == [s EXCEPT !.audioSources = sources]

(***************************************************************************)
(* The native audio backend's enumeration result and its calls.            *)
(***************************************************************************)
\* fallbackValue of useAwaiter(() => VesktopNative.virtmic.list(), ...)
FallbackSources ==
    [ok |-> TRUE, targets |-> <<>>, hasPipewirePulse |-> TRUE,
     isGlibCxxOutdated |-> FALSE]

OkSources(targets, pulse) ==
    [ok |-> TRUE, targets |-> targets, hasPipewirePulse |-> pulse,
     isGlibCxxOutdated |-> FALSE]

FailedSources(glib) ==
    [ok |-> FALSE, targets |-> <<>>, hasPipewirePulse |-> FALSE,
     isGlibCxxOutdated |-> glib]

Call(fn, arg) == [fn |-> fn, arg |-> arg]

(***************************************************************************)
(* Inputs of the model.  They are small so that the state space is finite; *)
(* the numbers are bounds, the rest is fixed data.                         *)
(***************************************************************************)
\* What the user picks among StreamResolutions and StreamFps in Spec: the
\* default and one other value each.
ResolutionChoices == {"720", "1080"}

FpsChoices == {"30", "60"}

\* The node the backend reports in Spec: the one of the specification's example.
Firefox == MkNode("Firefox", Absent, "42", Absent, Absent)

ListResults ==
    {OkSources(<<Firefox>>, TRUE), OkSources(<<Firefox>>, FALSE),
     FailedSources(FALSE), FailedSources(TRUE)}

\* The options objects the host builds in SpecQuality, before the hook: its own
\* defaults, with and without an encode sub-object.
RawOptions ==
    {[bitrateMin |-> 150000, bitrateMax |-> 2500000, bitrateTarget |-> 1000000,
      encode |-> encode, capture |-> QualityFields(30, 1280, 720)] :
        encode \in {<<>>, <<QualityFields(30, 1280, 720)>>}}

\* screens: Source[] of openScreenSharePicker, by id.
Screens == <<"screen:0">>

\* UserStore.getCurrentUser().id, as a sequence of characters.
CurrentUserId == <<"1">>

\* streamKey of the STREAM_CLOSE events of Spec, as sequences of characters:
\* a stream of the local user, and one of user 2 in a channel numbered 1.
StreamKeys == {<<"c", ":", "7", ":", "1">>, <<"c", ":", "1", ":", "2">>}

\* The stream keys of SpecEvents: every string over KeyAlphabet of at most
\* MaxKeyLen characters.
KeyAlphabet == {"1", "2", ":"}

MaxKeyLen == 3

AllStreamKeys == UNION {[1..n -> KeyAlphabet] : n \in 0..MaxKeyLen}

\* streamKey.split(":").at(-1): what follows the last ":" (the whole key when
\* it holds none).
RECURSIVE LastSegment(_)
LastSegment(key) ==
    IF key = <<>> THEN <<>>
    ELSE IF key[Len(key)] = ":" THEN <<>>
    ELSE LastSegment(SubSeq(key, 1, Len(key) - 1)) \o <<key[Len(key)]>>

(***************************************************************************)
(* State.                                                                  *)
(***************************************************************************)
VARIABLES
    platform,            \* "linux" | "windows" | "other": isLinux, isWindows
    ready,               \* onceReady has resolved
    subscribed,          \* the STREAM_CLOSE subscriber is registered
    granularSelect,      \* Settings.audioGranularSelect (unset reads as FALSE)
    currentSettings,     \* the module's currentSettings: <<>> is null, else <<settings>>
    modal,               \* "open" | "closed": the ScreenShare modal
    skipPicker,          \* skipPicker of this openScreenSharePicker call
    selected,            \* selected of ModalComponent: Undefined or a screen id
    settings,            \* settings of ModalComponent
    picker,              \* AudioSourcePickerLinux: "unmounted" | "loading" | "loaded"
    sources,             \* sources of AudioSourcePickerLinux (the useAwaiter value)
    ignorePulseWarning,  \* ignorePulseWarning of AudioSourcePickerLinux
    audioModal,          \* the Venmic Settings modal is open on top
    didSubmit,           \* didSubmit of openScreenSharePicker
    promise,             \* the returned promise: "none" | "pending" | "resolved" | "rejected"
    pick,                \* <<v>>: the StreamPick handed to submit, <<>> before
    startCall,           \* the awaited virtmic start: "none" | "pending" | "resolved" | "rejected"
    timer,               \* the setTimeout of Go Live: "none" | "scheduled"
    timerOutcome,        \* how the last timer callback ended
    videoStreamParameters, \* <<p>>: what this dialog's Go Live wrote to the connection, else <<>>
    issued,              \* the backend calls the last handler made, in order
    lastEvent,           \* <<streamKey>> when the last handler ran for a STREAM_CLOSE, else <<>>
    opts,                \* <<o>>: the options object the host built last, as the hook left it
    sToggles,            \* SpecSelect: what was clicked since the dialog opened, in order
    hNode, hGranular, hItems, hPair, hMatch, \* the harness of SpecMatch
    hTargets, hOptions   \* the harness of SpecOptions

sessionVars ==
    <<modal, skipPicker, selected, settings, picker, sources, ignorePulseWarning,
      audioModal, didSubmit, promise, pick, startCall, timer, timerOutcome>>

matchVars == <<hNode, hGranular, hItems, hPair, hMatch>>

optionVars == <<hTargets, hOptions>>

harnessVars == <<opts, sToggles, matchVars, optionVars>>

vars ==
    <<platform, ready, subscribed, granularSelect, currentSettings, sessionVars,
      videoStreamParameters, issued, lastEvent, harnessVars>>

isLinux == platform = "linux"

isWindows == platform = "windows"

HarnessIdle ==
    /\ sToggles = <<>>
    /\ hNode = EmptyObject
    /\ hGranular = FALSE
    /\ hItems = <<>>
    /\ hPair = <<>>
    /\ hMatch = FALSE
    /\ hTargets = <<>>
    /\ hOptions = <<>>

Init ==
    /\ platform \in {"linux", "windows", "other"}
    /\ ready = FALSE
    /\ subscribed = FALSE
    /\ granularSelect \in BOOLEAN
    /\ currentSettings = <<>>
    /\ modal = "closed"
    /\ skipPicker = FALSE
    /\ selected = Undefined
    /\ settings = InitialSettings
    /\ picker = "unmounted"
    /\ sources = FallbackSources
    /\ ignorePulseWarning = FALSE
    /\ audioModal = FALSE
    /\ didSubmit = FALSE
    /\ promise = "none"
    /\ pick = <<>>
    /\ startCall = "none"
    /\ timer = "none"
    /\ timerOutcome = "none"
    /\ videoStreamParameters = <<>>
    /\ issued = <<>>
    /\ opts = <<>>
    /\ lastEvent = <<>>
    /\ HarnessIdle

(***************************************************************************)
(* Start-up: onceReady.then(() => FluxDispatcher.subscribe(...)), under    *)
(* if (isLinux).  The dispatcher and the picker's caller are the host's,   *)
(* found once the host is ready, so nothing else runs before this.         *)
(***************************************************************************)
OnceReady ==
    /\ ~ready
    /\ ready' = TRUE
    /\ subscribed' = isLinux
    /\ issued' = <<>>
    /\ lastEvent' = <<>>
    /\ UNCHANGED <<platform, granularSelect, currentSettings, sessionVars,
                   videoStreamParameters, harnessVars>>

\* The subscriber without its owner check.
StreamCloseCalls_AnyOwner(streamKey) ==
    IF subscribed THEN <<Call("stop", <<>>)>> ELSE <<>>

\* The STREAM_CLOSE subscriber, run by the dispatcher for one event.
StreamCloseCalls(streamKey) ==
    IF subscribed /\ LastSegment(streamKey) = CurrentUserId
    THEN <<Call("stop", <<>>)>>
    ELSE <<>>

StreamClose(streamKey) ==
    /\ ready
    /\ issued' = StreamCloseCalls(streamKey)
    /\ lastEvent' = <<streamKey>>
    /\ UNCHANGED <<platform, ready, subscribed, granularSelect, currentSettings,
                   sessionVars, videoStreamParameters, harnessVars>>

(***************************************************************************)
(* The dialog.                                                             *)
(***************************************************************************)
\* StreamSettings rendering the audio picker on every platform.
MountStreamSettings_AnyPlatform ==
    /\ picker' = "loading"
    /\ sources' = FallbackSources
    /\ ignorePulseWarning' = FALSE
    /\ issued' = <<Call("list", <<>>)>>

\* AudioSourcePickerLinux mounts with StreamSettings, under isLinux: its
\* useAwaiter calls virtmic.list() and holds the fallback while loading.
MountStreamSettings ==
    /\ picker' = IF isLinux THEN "loading" ELSE "unmounted"
    /\ sources' = FallbackSources
    /\ ignorePulseWarning' = FALSE
    /\ issued' = IF isLinux THEN <<Call("list", <<>>)>> ELSE <<>>

\* The modal's components are gone: their state with them.
DialogGone ==
    /\ modal' = "closed"
    /\ selected' = Undefined
    /\ settings' = InitialSettings
    /\ picker' = "unmounted"
    /\ sources' = FallbackSources
    /\ ignorePulseWarning' = FALSE
    /\ audioModal' = FALSE

\* openScreenSharePicker(screens, skipPicker).  One share is set up at a
\* time: the caller awaits the promise of the previous call.
openScreenSharePicker(skip) ==
    /\ ready
    /\ modal = "closed"
    /\ startCall # "pending"
    /\ timer # "scheduled"
    /\ modal' = "open"
    /\ skipPicker' = skip
    /\ selected' = IF skip THEN Screens[1] ELSE Undefined
    /\ settings' = InitialSettings
    /\ audioModal' = FALSE
    /\ didSubmit' = FALSE
    /\ promise' = "pending"
    /\ pick' = <<>>
    /\ startCall' = "none"
    /\ timerOutcome' = "none"
    /\ videoStreamParameters' = <<>>
    /\ IF skip
       THEN MountStreamSettings
       ELSE /\ issued' = <<>>
            /\ UNCHANGED <<picker, sources, ignorePulseWarning>>
    /\ lastEvent' = <<>>
    /\ UNCHANGED <<platform, ready, subscribed, granularSelect, currentSettings,
                   timer, harnessVars>>

StreamSettingsShown == modal = "open" /\ selected # Undefined /\ ~audioModal

\* chooseScreen(id) of ScreenPicker: setSelected(id)
chooseScreen(id) ==
    /\ modal = "open"
    /\ selected = Undefined
    /\ selected' = id
    /\ MountStreamSettings
    /\ lastEvent' = <<>>
    /\ UNCHANGED <<platform, ready, subscribed, granularSelect, currentSettings,
                   modal, skipPicker, settings, audioModal, didSubmit, promise,
                   pick, startCall, timer, timerOutcome, videoStreamParameters,
                   harnessVars>>

\* The Back button of ModalComponent: setSelected(void 0).  StreamSettings
\* unmounts; settings, held by ModalComponent, stays.
Back ==
    /\ StreamSettingsShown
    /\ ~skipPicker
    /\ selected' = Undefined
    /\ picker' = "unmounted"
    /\ sources' = FallbackSources
    /\ ignorePulseWarning' = FALSE
    /\ issued' = <<>>
    /\ lastEvent' = <<>>
    /\ UNCHANGED <<platform, ready, subscribed, granularSelect, currentSettings,
                   modal, skipPicker, settings, audioModal, didSubmit, promise,
                   pick, startCall, timer, timerOutcome, videoStreamParameters,
                   harnessVars>>

\* A handler of StreamSettings that only replaces settings.
SetSettings(new) ==
    /\ StreamSettingsShown
    /\ settings' = new
    /\ issued' = <<>>
    /\ lastEvent' = <<>>
    /\ UNCHANGED <<platform, ready, subscribed, granularSelect, currentSettings,
                   modal, skipPicker, selected, picker, sources,
                   ignorePulseWarning, audioModal, didSubmit, promise, pick,
                   startCall, timer, timerOutcome, videoStreamParameters,
                   harnessVars>>

\* The radios of StreamSettings, and the Stream With Audio switch (isWindows).
setResolution(res) == SetSettings([settings EXCEPT !.resolution = res])

setFps(fps) == SetSettings([settings EXCEPT !.fps = fps])

setContentHint(hint) == SetSettings([settings EXCEPT !.contentHint = hint])

setAudio(checked) ==
    /\ isWindows
    /\ SetSettings([settings EXCEPT !.audio = checked])

\* The useAwaiter of AudioSourcePickerLinux settles with the backend's answer.
listSettles(result) ==
    /\ picker = "loading"
    /\ picker' = "loaded"
    /\ sources' = result
    /\ issued' = <<>>
    /\ lastEvent' = <<>>
    /\ UNCHANGED <<platform, ready, subscribed, granularSelect, currentSettings,
                   modal, skipPicker, selected, settings, ignorePulseWarning,
                   audioModal, didSubmit, promise, pick, startCall, timer,
                   timerOutcome, videoStreamParameters, harnessVars>>

\* const hasPipewirePulse = sources.ok ? sources.hasPipewirePulse : true
hasPipewirePulse == IF sources.ok THEN sources.hasPipewirePulse ELSE TRUE

\* "I know what I'm doing": setIgnorePulseWarning(true)
setIgnorePulseWarning ==
    /\ StreamSettingsShown
    /\ picker # "unmounted"
    /\ ~(hasPipewirePulse \/ ignorePulseWarning)
    /\ ignorePulseWarning' = TRUE
    /\ issued' = <<>>
    /\ lastEvent' = <<>>
    /\ UNCHANGED <<platform, ready, subscribed, granularSelect, currentSettings,
                   modal, skipPicker, selected, settings, picker, sources,
                   audioModal, didSubmit, promise, pick, startCall, timer,
                   timerOutcome, videoStreamParameters, harnessVars>>

\* The Select is rendered: (hasPipewirePulse || ignorePulseWarning) && allSources
SelectRendered ==
    /\ StreamSettingsShown
    /\ picker # "unmounted"
    /\ hasPipewirePulse \/ ignorePulseWarning
    /\ sources.ok

\* The option values the Select offers.
OptionValues ==
    LET options == SelectOptions(sources.targets, granularSelect)
    IN  {options[i].value : i \in 1..Len(options)}

\* select={update}: the user clicks one option.  logged: the click is kept in
\* sToggles.
UpdateStep(value, logged) ==
    /\ SelectRendered
    /\ value \in OptionValues
    /\ settings' = WithAudioSources(settings, update(settings.audioSources, value))
    /\ issued' = <<>>
    /\ lastEvent' = <<>>
    /\ sToggles' = IF logged THEN Append(sToggles, value) ELSE sToggles
    /\ UNCHANGED <<platform, ready, subscribed, granularSelect, currentSettings,
                   modal, skipPicker, selected, picker, sources,
                   ignorePulseWarning, audioModal, didSubmit, promise, pick,
                   startCall, timer, timerOutcome, videoStreamParameters,
                   opts, matchVars, optionVars>>

Update(value) == UpdateStep(value, FALSE)

\* "Open Audio Settings": openSettings opens AudioSettingsModal on top.
openSettings ==
    /\ StreamSettingsShown
    /\ picker # "unmounted"
    /\ audioModal' = TRUE
    /\ issued' = <<>>
    /\ lastEvent' = <<>>
    /\ UNCHANGED <<platform, ready, subscribed, granularSelect, currentSettings,
                   modal, skipPicker, selected, settings, picker, sources,
                   ignorePulseWarning, didSubmit, promise, pick, startCall,
                   timer, timerOutcome, videoStreamParameters, harnessVars>>

\* What sToggles holds for a click on the Granular Selection switch.
GranularMark == [kind |-> "setGranularSelect", node |-> EmptyObject, list |-> <<>>]

\* The switch storing the setting and leaving the selection as it is.
GranularStep_KeepsSelection(value, logged) ==
    /\ modal = "open"
    /\ audioModal
    /\ value # granularSelect
    /\ granularSelect' = value
    /\ issued' = <<>>
    /\ lastEvent' = <<>>
    /\ sToggles' = IF logged THEN Append(sToggles, GranularMark) ELSE sToggles
    /\ UNCHANGED <<platform, ready, subscribed, currentSettings, modal,
                   skipPicker, selected, settings, picker, sources,
                   ignorePulseWarning, audioModal, didSubmit, promise, pick,
                   startCall, timer, timerOutcome, videoStreamParameters, opts,
                   matchVars, optionVars>>

\* The Granular Selection switch of AudioSettingsModal.
GranularStep(value, logged) ==
    /\ modal = "open"
    /\ audioModal
    /\ value # granularSelect
    /\ granularSelect' = value
    /\ settings' = WithAudioSources(settings, SpecialSource("None"))
    /\ issued' = <<>>
    /\ lastEvent' = <<>>
    /\ sToggles' = IF logged THEN Append(sToggles, GranularMark) ELSE sToggles
    /\ UNCHANGED <<platform, ready, subscribed, currentSettings, modal,
                   skipPicker, selected, picker, sources, ignorePulseWarning,
                   audioModal, didSubmit, promise, pick, startCall, timer,
                   timerOutcome, videoStreamParameters, opts, matchVars,
                   optionVars>>

setGranularSelect(value) == GranularStep(value, FALSE)

\* Back / the close button of AudioSettingsModal: props.onClose()
closeSettings ==
    /\ modal = "open"
    /\ audioModal
    /\ audioModal' = FALSE
    /\ issued' = <<>>
    /\ lastEvent' = <<>>
    /\ UNCHANGED <<platform, ready, subscribed, granularSelect, currentSettings,
                   modal, skipPicker, selected, settings, picker, sources,
                   ignorePulseWarning, didSubmit, promise, pick, startCall,
                   timer, timerOutcome, videoStreamParameters, harnessVars>>

(***************************************************************************)
(* Submitting and closing.                                                 *)
(***************************************************************************)
\* submit starting the capture a second time after the first call.
SubmitCalls_StartTwice(audioSources) ==
    IF audioSources.kind # "undefined" /\ audioSources.kind # "None"
    THEN IF audioSources.kind = "Entire System"
         THEN <<Call("startSystem", <<>>), Call("startSystem", <<>>)>>
         ELSE <<Call("start", audioSources.list), Call("start", audioSources.list)>>
    ELSE <<>>

\* submit testing v.audioSources for truthiness only.
SubmitCalls_TruthyOnly(audioSources) ==
    IF audioSources.kind # "undefined"
    THEN IF audioSources.kind = "Entire System"
         THEN <<Call("startSystem", <<>>)>>
         ELSE <<Call("start", audioSources.list)>>
    ELSE <<>>

\* submit of openScreenSharePicker: the backend call it makes for v.audioSources.
\* undefined is falsy; a string and an array (an empty one too) are truthy.
SubmitCalls(audioSources) ==
    IF audioSources.kind # "undefined" /\ audioSources.kind # "None"
    THEN IF audioSources.kind = "Entire System"
         THEN <<Call("startSystem", <<>>)>>
         ELSE <<Call("start", audioSources.list)>>
    ELSE <<>>

\* submit resolving before its backend call has settled.
PromiseAfterSubmit_Eager(calls) == "resolved"

\* The picker's promise when submit returns to the Go Live handler: submit
\* runs up to its first await, so resolve(v) has run only if it awaits nothing.
PromiseAfterSubmit(calls) == IF calls # <<>> THEN promise ELSE "resolved"

\* { id: selected!, ...settings }
StreamPick(id, s) ==
    [id |-> id, resolution |-> s.resolution, fps |-> s.fps,
     contentHint |-> s.contentHint, audio |-> s.audio,
     audioSources |-> s.audioSources]

\* What Go Live writes to conn.videoStreamParameters[0].
ConnectionParameters(s) ==
    [maxFrameRate |-> Number(s.fps),
     maxResolution |-> [height |-> Number(s.resolution),
                        width |-> RoundWidth(Number(s.resolution))]]

\* Go Live storing its settings only while currentSettings is still null.
GoLiveSettings_FirstWins(s) == IF currentSettings = <<>> THEN <<s>> ELSE currentSettings

\* What the Go Live click stores in currentSettings, before its try block.
GoLiveSettings(s) == <<s>>

\* The Go Live button.  conn is what the connection store holds for the local
\* user at the click: "none", "ok", or "throws" when reading it throws (the
\* media engine is not there, or the connection has no videoStreamParameters[0]).
\* Then submit is not reached, the error is logged and close() rejects.
goLive(conn) ==
    /\ StreamSettingsShown
    /\ currentSettings' = GoLiveSettings(settings)
    /\ IF conn = "throws"
       THEN /\ promise' = IF didSubmit THEN promise ELSE "rejected"
            /\ issued' = <<>>
            /\ UNCHANGED <<videoStreamParameters, didSubmit, pick, startCall, timer>>
       ELSE /\ videoStreamParameters' =
                   IF conn = "ok" THEN <<ConnectionParameters(settings)>>
                   ELSE videoStreamParameters
            /\ didSubmit' = TRUE
            /\ pick' = <<StreamPick(selected, settings)>>
            /\ issued' = SubmitCalls(settings.audioSources)
            /\ startCall' = IF issued' # <<>> THEN "pending" ELSE "none"
            /\ promise' = PromiseAfterSubmit(issued')
            /\ timer' = "scheduled"
    /\ DialogGone
    /\ lastEvent' = <<>>
    /\ UNCHANGED <<platform, ready, subscribed, granularSelect, skipPicker,
                   timerOutcome, harnessVars>>

\* The awaited virtmic.start / startSystem settles.  Fulfilled: submit goes
\* on to resolve(v).  Rejected: submit's own promise rejects, which nothing
\* handles, and resolve(v) is never reached.
startSettles(ok) ==
    /\ startCall = "pending"
    /\ startCall' = IF ok THEN "resolved" ELSE "rejected"
    /\ promise' = IF ok /\ promise = "pending" THEN "resolved" ELSE promise
    /\ issued' = <<>>
    /\ lastEvent' = <<>>
    /\ UNCHANGED <<platform, ready, subscribed, granularSelect, currentSettings,
                   modal, skipPicker, selected, settings, picker, sources,
                   ignorePulseWarning, audioModal, didSubmit, pick, timer,
                   timerOutcome, videoStreamParameters, harnessVars>>

\* How the setTimeout callback of Go Live ends.  conn is what it finds:
\* "none" (no connection: return), "notrack" (getVideoTracks()[0] is
\* undefined: track.getConstraints() throws outside the try), "rejects"
\* (applyConstraints rejects: caught and logged), "ok".
TimerOutcome(conn) ==
    CASE conn = "none" -> "noop"
      [] conn = "notrack" -> "escaped"
      [] conn = "rejects" -> "logged"
      [] conn = "ok" -> "applied"

timerFires(conn) ==
    /\ timer = "scheduled"
    /\ timer' = "none"
    /\ timerOutcome' = TimerOutcome(conn)
    /\ issued' = <<>>
    /\ lastEvent' = <<>>
    /\ UNCHANGED <<platform, ready, subscribed, granularSelect, currentSettings,
                   modal, skipPicker, selected, settings, picker, sources,
                   ignorePulseWarning, audioModal, didSubmit, promise, pick,
                   startCall, videoStreamParameters, harnessVars>>

\* close of openScreenSharePicker, from the close button or Cancel.
close ==
    /\ modal = "open"
    /\ ~audioModal
    /\ promise' = IF didSubmit THEN promise ELSE "rejected"
    /\ DialogGone
    /\ issued' = <<>>
    /\ lastEvent' = <<>>
    /\ UNCHANGED <<platform, ready, subscribed, granularSelect, currentSettings,
                   skipPicker, didSubmit, pick, startCall, timer, timerOutcome,
                   videoStreamParameters, harnessVars>>

\* onCloseRequest (Escape, a click outside): closeModal(key); reject("Aborted")
onCloseRequest ==
    /\ modal = "open"
    /\ ~audioModal
    /\ promise' = IF promise = "pending" THEN "rejected" ELSE promise
    /\ DialogGone
    /\ issued' = <<>>
    /\ lastEvent' = <<>>
    /\ UNCHANGED <<platform, ready, subscribed, granularSelect, currentSettings,
                   skipPicker, didSubmit, pick, startCall, timer, timerOutcome,
                   videoStreamParameters, harnessVars>>

\* The host builds a per-stream options object: the patched code runs
\* $self.patchStreamQuality(this) on it before this.localWant is assigned.
ConstructOptions(raw) ==
    /\ ready
    /\ opts' = <<patchStreamQuality(raw, currentSettings)>>
    /\ issued' = <<>>
    /\ lastEvent' = <<>>
    /\ UNCHANGED <<platform, ready, subscribed, granularSelect, currentSettings,
                   sessionVars, videoStreamParameters, sToggles, matchVars,
                   optionVars>>

Next ==
    \/ OnceReady
    \/ \E streamKey \in StreamKeys : StreamClose(streamKey)
    \/ \E skip \in BOOLEAN : openScreenSharePicker(skip)
    \/ \E i \in 1..Len(Screens) : chooseScreen(Screens[i])
    \/ Back
    \/ \E res \in ResolutionChoices : setResolution(res)
    \/ \E fps \in FpsChoices : setFps(fps)
    \/ \E i \in 1..Len(ContentHints) : setContentHint(ContentHints[i])
    \/ \E checked \in BOOLEAN : setAudio(checked)
    \/ \E result \in ListResults : listSettles(result)
    \/ setIgnorePulseWarning
    \/ \E value \in OptionValues : Update(value)
    \/ openSettings
    \/ \E value \in BOOLEAN : setGranularSelect(value)
    \/ closeSettings
    \/ \E conn \in {"none", "ok", "throws"} : goLive(conn)
    \/ \E ok \in BOOLEAN : startSettles(ok)
    \/ \E conn \in {"none", "notrack", "rejects", "ok"} : timerFires(conn)
    \/ close
    \/ onCloseRequest

Spec == Init /\ [][Next]_vars

(***************************************************************************)
(* SpecEvents: the STREAM_CLOSE subscriber alone, over every short key.    *)
(***************************************************************************)
NextEvents ==
    \/ OnceReady
    \/ \E streamKey \in AllStreamKeys : StreamClose(streamKey)

SpecEvents == Init /\ [][NextEvents]_vars

(***************************************************************************)
(* SpecQuality: the quality path alone.  Dialogs opened on the settings     *)
(* view, every resolution and frame rate, Go Live, and the host building    *)
(* options objects at any moment.                                           *)
(***************************************************************************)
InitQuality ==
    /\ Init
    /\ platform = "other"

NextQuality ==
    \/ OnceReady
    \/ openScreenSharePicker(TRUE)
    \/ \E i \in 1..Len(StreamResolutions) : setResolution(StreamResolutions[i])
    \/ \E i \in 1..Len(StreamFps) : setFps(StreamFps[i])
    \/ \E conn \in {"none", "ok", "throws"} : goLive(conn)
    \/ timerFires("none")
    \/ close
    \/ \E raw \in RawOptions : ConstructOptions(raw)

SpecQuality == InitQuality /\ [][NextQuality]_vars

(***************************************************************************)
(* SpecSelect: the selection engine of one dialog, from the moment the     *)
(* settings view shows a loaded enumeration, with every click kept in      *)
(* sToggles.                                                               *)
(***************************************************************************)
\* How many clicks one run of SpecSelect logs.
MaxToggles == 3

\* A second node, known by its binary only and without a process id.
Mpv == MkNode(Absent, "mpv", Absent, Absent, Absent)

SelectCatalogs == {<<Firefox>>, <<Firefox, Mpv>>}

InitSelect ==
    /\ platform = "linux"
    /\ ready = TRUE
    /\ subscribed = TRUE
    /\ granularSelect \in BOOLEAN
    /\ currentSettings = <<>>
    /\ modal = "open"
    /\ skipPicker = FALSE
    /\ selected = Screens[1]
    /\ settings = InitialSettings
    /\ picker = "loaded"
    /\ sources \in {OkSources(targets, TRUE) : targets \in SelectCatalogs}
    /\ ignorePulseWarning = FALSE
    /\ audioModal = FALSE
    /\ didSubmit = FALSE
    /\ promise = "pending"
    /\ pick = <<>>
    /\ startCall = "none"
    /\ timer = "none"
    /\ timerOutcome = "none"
    /\ videoStreamParameters = <<>>
    /\ issued = <<>>
    /\ opts = <<>>
    /\ lastEvent = <<>>
    /\ HarnessIdle

SelectToggle(value) ==
    /\ Len(sToggles) < MaxToggles
    /\ UpdateStep(value, TRUE)

SelectGranular(value) ==
    /\ Len(sToggles) < MaxToggles
    /\ GranularStep(value, TRUE)

NextSelect ==
    \/ \E value \in OptionValues : SelectToggle(value)
    \/ openSettings
    \/ \E value \in BOOLEAN : SelectGranular(value)
    \/ closeSettings

SpecSelect == InitSelect /\ [][NextSelect]_vars

(***************************************************************************)
(* SpecMatch: mapToAudioItem applied to one node, and hasMatchingProps     *)
(* applied to two of the patterns it built.                                *)
(***************************************************************************)
\* The nodes of SpecMatch: every key absent or holding one value.
MatchNodes ==
    {MkNode(name, binary, pid, mediaName, mediaClass) :
        name \in {Absent, "Firefox"}, binary \in {Absent, "firefox-bin"},
        pid \in {Absent, "42"}, mediaName \in {Absent, "Playback"},
        mediaClass \in {Absent, "Stream/Output/Audio"}}

InitMatch ==
    /\ platform = "linux"
    /\ ready = FALSE
    /\ subscribed = FALSE
    /\ granularSelect = FALSE
    /\ currentSettings = <<>>
    /\ modal = "closed"
    /\ skipPicker = FALSE
    /\ selected = Undefined
    /\ settings = InitialSettings
    /\ picker = "unmounted"
    /\ sources = FallbackSources
    /\ ignorePulseWarning = FALSE
    /\ audioModal = FALSE
    /\ didSubmit = FALSE
    /\ promise = "none"
    /\ pick = <<>>
    /\ startCall = "none"
    /\ timer = "none"
    /\ timerOutcome = "none"
    /\ videoStreamParameters = <<>>
    /\ issued = <<>>
    /\ lastEvent = <<>>
    /\ opts = <<>>
    /\ sToggles = <<>>
    /\ hTargets = <<>>
    /\ hOptions = <<>>
    /\ hNode \in MatchNodes
    /\ hGranular \in BOOLEAN
    /\ hItems = <<>>
    /\ hPair = <<>>
    /\ hMatch = FALSE

programVars ==
    <<platform, ready, subscribed, granularSelect, currentSettings, sessionVars,
      videoStreamParameters, issued, lastEvent, opts, sToggles>>

\* hItems := mapToAudioItem(hNode, hGranular)
MapNode ==
    /\ hItems = <<>>
    /\ hItems' = mapToAudioItem(NodeSource(hNode), hGranular)
    /\ UNCHANGED <<programVars, optionVars, hNode, hGranular, hPair, hMatch>>

\* hMatch := hasMatchingProps(p, q) for the patterns p, q of items i and j
MatchPair(i, j) ==
    /\ hPair' = <<i, j>>
    /\ hMatch' = hasMatchingProps(hItems[i].value.node, hItems[j].value.node)
    /\ UNCHANGED <<programVars, optionVars, hNode, hGranular, hItems>>

NextMatch ==
    \/ MapNode
    \/ \E i \in 1..Len(hItems) : \E j \in 1..Len(hItems) : MatchPair(i, j)

SpecMatch == InitMatch /\ [][NextMatch]_vars

(***************************************************************************)
(* SpecOptions: the options pipeline of the Select applied to one catalog.  *)
(***************************************************************************)
\* The longest catalog of SpecOptions.
MaxCatalog == 2

\* The nodes of its catalogs: two Chrome processes, a node known by a binary
\* that is called Chrome too, an application that calls itself None, Firefox.
OptionNodes ==
    {MkNode("Chrome", Absent, "1", Absent, Absent),
     MkNode("Chrome", Absent, "2", Absent, Absent),
     MkNode(Absent, "Chrome", Absent, Absent, Absent),
     MkNode("None", Absent, "3", Absent, Absent),
     Firefox}

InitOptions ==
    /\ InitMatch
    /\ hNode = EmptyObject

\* The list() result whose targets the pipeline is applied to.
LoadCatalog ==
    /\ hTargets = <<>>
    /\ hOptions = <<>>
    /\ \E n \in 0..MaxCatalog : hTargets' \in [1..n -> OptionNodes]
    /\ hTargets' # <<>>
    /\ UNCHANGED <<programVars, matchVars, hOptions>>

\* hOptions := allSources.map(mapToAudioItem).flat().filter(uniqueName)
BuildOptions ==
    /\ hOptions = <<>>
    /\ hOptions' = SelectOptions(hTargets, hGranular)
    /\ UNCHANGED <<programVars, matchVars, hTargets>>

NextOptions ==
    \/ LoadCatalog
    \/ BuildOptions

SpecOptions == InitOptions /\ [][NextOptions]_vars

(***************************************************************************)
(* Properties.                                                             *)
(***************************************************************************)
\* The pattern { "application.name": "Firefox" }
FirefoxByName == Spread(EmptyObject, K_NAME, "Firefox")

\* C1: the Selection is never an empty list: a removal that leaves no entry
\* makes it None.  (Spec)
C1_SelectionNeverEmptyList ==
    ~(settings.audioSources.kind = "list" /\ settings.audioSources.list = <<>>)

\* C2: from the initial Selection of a new dialog, toggle(c) followed by
\* toggle(c) leaves the Selection equal to None; stated for the Pattern
\* candidates c.  (SpecSelect)
C2_ToggleTwiceLeavesNone ==
    (/\ Len(sToggles) = 2
     /\ sToggles[1] = sToggles[2]
     /\ sToggles[1].kind = "node")
    => settings.audioSources.kind = "None"

\* C3: when the capture-start call issued at submit fails, the dialog is
\* closed and the picker's promise is resolved with the pick.  (Spec)
C3_FailedStartStillResolves ==
    startCall = "rejected" => (modal = "closed" /\ promise = "resolved" /\ pick # <<>>)

\* The owner identifier embedded in a stream key is id: id follows the key's
\* last ":" (or is the whole key) and holds no ":" itself.
OwnerIs(key, id) ==
    \E i \in 0..Len(key) :
        /\ SubSeq(key, i + 1, Len(key)) = id
        /\ \A j \in (i + 1)..Len(key) : key[j] # ":"
        /\ i = 0 \/ key[i] = ":"

\* C4: for every "stream closed" event the subscriber handles (it exists
\* under isLinux), backend stop is called exactly once if the owner embedded
\* in the stream key is the local user, and not at all otherwise.  (SpecEvents)
C4_StopOnceForOwnStream ==
    lastEvent # <<>> =>
        issued = IF isLinux /\ OwnerIs(lastEvent[1], CurrentUserId)
                 THEN <<[fn |-> "stop", arg |-> <<>>]>>
                 ELSE <<>>

\* C4's case: the event of the stream "2:1", owned by the local user, was handled.
C4_Witness ==
    /\ lastEvent = <<<<"2", ":", "1">>>>
    /\ issued = <<[fn |-> "stop", arg |-> <<>>]>>

\* The backend calls C5 expects of a submit with the Selection sel.
C5_Expected(sel) ==
    CASE sel.kind \in {"undefined", "None"} -> <<>>
      [] sel.kind = "Entire System" -> <<[fn |-> "startSystem", arg |-> <<>>]>>
      [] sel.kind = "list" -> <<[fn |-> "start", arg |-> sel.list]>>

\* C5: in the step in which submit runs (didSubmit turns true), the backend
\* calls made are decided by the Selection: none for None or unset, exactly
\* one startSystem for Entire System, exactly one start carrying exactly the
\* list for a Pattern list.  (Spec)
C5_SubmitCallBySelection ==
    [][(~didSubmit /\ didSubmit') =>
          /\ issued' = C5_Expected(settings.audioSources)
          /\ pick' # <<>>
          /\ pick'[1].audioSources = settings.audioSources]_vars

\* C5's case: a submit with the Selection [{name: Firefox}] has called start with it.
C5_Witness ==
    /\ didSubmit
    /\ pick # <<>>
    /\ pick[1].audioSources = [kind |-> "list", node |-> EmptyObject,
                               list |-> <<FirefoxByName>>]
    /\ issued = <<[fn |-> "start", arg |-> <<FirefoxByName>>]>>
    /\ startCall = "pending"

\* C6: whenever the most recent enumeration result is a failure, the
\* Selection a submit would use is None (or unset).  (Spec)
C6_FailedEnumerationLeavesNone ==
    (picker = "loaded" /\ ~sources.ok) =>
        settings.audioSources.kind \in {"undefined", "None"}

\* C7: when the Selection is a SpecialMode (None or Entire System), a click
\* on a Pattern candidate c makes the Selection the one-element list [c].
\* (SpecSelect)
C7_SpecialThenPatternIsSingleton ==
    [][\A c \in OptionValues :
          (/\ c.kind = "node"
           /\ settings.audioSources.kind \in {"None", "Entire System"}
           /\ sToggles' = Append(sToggles, c))
          => settings'.audioSources =
                 [kind |-> "list", node |-> EmptyObject, list |-> <<c.node>>]]_vars

\* C7's case: Entire System was selected, then the candidate Firefox clicked.
C7_Witness ==
    /\ sToggles = <<SpecialSource("Entire System"), NodeSource(FirefoxByName)>>
    /\ settings.audioSources.kind = "list"
    /\ settings.audioSources.list = <<FirefoxByName>>

\* C8: for patterns p, q built from the same node, matches(p, q) is false
\* unless p's keys are a subset of q's keys.  (SpecMatch)
C8_MatchNeedsKeySubset ==
    (hPair # <<>> /\ hMatch) =>
        ObjectKeys(hItems[hPair[1]].value.node)
            \subseteq ObjectKeys(hItems[hPair[2]].value.node)

\* C9: no exception or rejection escapes the delayed track step: it ends as
\* a no-op, an applied constraint or a logged error.  (Spec)
C9_TimerNeverEscalates == timerOutcome # "escaped"

\* C10: currentSettings changes only in a Go Live click, and every Go Live
\* click makes it the settings of that click (the last write wins); every
\* other handler leaves it as it is.  (Spec)
C10_CurrentSettingsOnlyByGoLive ==
    [][/\ currentSettings' # currentSettings =>
              \E conn \in {"none", "ok", "throws"} : goLive(conn)
       /\ \A conn \in {"none", "ok", "throws"} :
              goLive(conn) => currentSettings' = <<settings>>]_vars

\* C10's case: a second dialog is open, its settings edited and its audio
\* sources toggled, while currentSettings still holds the earlier submission.
C10_Witness ==
    /\ modal = "open"
    /\ currentSettings # <<>>
    /\ currentSettings[1].resolution = "720"
    /\ settings.resolution = "1080"
    /\ settings.fps = "30"
    /\ settings.audioSources.kind = "Entire System"

\* C11: every options object the hook patches holds height = resolution,
\* width = round(height * 16 / 9), framerate = fps, pixelCount = width * height
\* and the bitrates 500000 / 8000000 / 600000 whatever the resolution and fps
\* (1080 gives width 1920); the parameters Go Live writes to the connection
\* hold the same frame rate, width and height, and the two agree whenever
\* both were computed for one submission.  (SpecQuality)
C11_ProfileFromSettings ==
    [][/\ \A raw \in RawOptions :
              (ConstructOptions(raw) /\ currentSettings # <<>>) =>
                  LET cs == currentSettings[1]
                      o == opts'[1]
                      c == o.capture
                  IN  /\ c.height = Number(cs.resolution)
                      /\ 18 * c.width <= 32 * c.height + 9
                      /\ 32 * c.height + 9 < 18 * c.width + 18
                      /\ c.framerate = Number(cs.fps)
                      /\ c.pixelCount = c.width * c.height
                      /\ o.bitrateMin = 500000
                      /\ o.bitrateMax = 8000000
                      /\ o.bitrateTarget = 600000
                      /\ cs.resolution = "1080" => c.width = 1920
                      /\ videoStreamParameters # <<>> =>
                             /\ videoStreamParameters[1].maxFrameRate = c.framerate
                             /\ videoStreamParameters[1].maxResolution.width = c.width
                             /\ videoStreamParameters[1].maxResolution.height = c.height
       /\ goLive("ok") =>
              LET p == videoStreamParameters'[1]
                  h == p.maxResolution.height
                  w == p.maxResolution.width
              IN  /\ h = Number(settings.resolution)
                  /\ p.maxFrameRate = Number(settings.fps)
                  /\ 18 * w <= 32 * h + 9
                  /\ 32 * h + 9 < 18 * w + 18]_vars

\* C11's case: after a submission of 480 / 15 that patched the connection,
\* the host built an options object: both hold 853 x 480 at 15.
C11_Witness ==
    /\ currentSettings # <<>>
    /\ currentSettings[1].resolution = "480"
    /\ currentSettings[1].fps = "15"
    /\ videoStreamParameters # <<>>
    /\ videoStreamParameters[1].maxResolution.width = 853
    /\ opts # <<>>
    /\ opts[1].capture.width = 853
    /\ opts[1].capture.framerate = 15
    /\ opts[1].capture.pixelCount = 409440

\* C12: in granular mode a node without application.process.id yields no
\* item whose pattern contains that key.  (SpecMatch)
C12_PidItemOnlyWithPid ==
    (hGranular /\ hNode[K_PID] = Absent) =>
        \A i \in 1..Len(hItems) : K_PID \notin ObjectKeys(hItems[i].value.node)

\* C13: a node with neither application.name nor application.process.binary
\* yields no item at all, granular or not, and without granular selection a
\* node without application.name yields none even if it has a binary.
\* (SpecMatch)
C13_NoNameNoBinaryNoItem ==
    /\ (hNode[K_NAME] = Absent /\ hNode[K_BINARY] = Absent) => hItems = <<>>
    /\ (~hGranular /\ hNode[K_NAME] = Absent) => hItems = <<>>

\* The place of a refinement key in the order pid, media.name, media.class.
C14_Rank(key) ==
    CASE key = K_PID -> 1 [] key = K_MEDIA_NAME -> 2 [] key = K_MEDIA_CLASS -> 3

\* C14: the items built for a node start with the base item (one key:
\* application.name, or the binary); every later item is the base pattern
\* plus exactly one of the keys pid, media.name, media.class holding the
\* node's value, in that order; without granular selection only the base
\* name item is built; {name: Firefox, pid: 42} with granular selection
\* gives the labels "Firefox" and "Firefox (42)", both patterns holding the
\* name.  (SpecMatch)
C14_ItemsGeneralFirst ==
    hItems # <<>> =>
        LET base == hItems[1].value.node
            Pattern(i) == hItems[i].value.node
            Extra(i) == ObjectKeys(Pattern(i)) \ ObjectKeys(base)
            Key(i) == CHOOSE key \in Extra(i) : TRUE
        IN  /\ ObjectKeys(base) \in {{K_NAME}, {K_BINARY}}
            /\ \A key \in ObjectKeys(base) : base[key] = Read(hNode, key)
            /\ ~hGranular =>
                   /\ Len(hItems) = 1
                   /\ ObjectKeys(base) = {K_NAME}
                   /\ hItems[1].name = hNode[K_NAME]
            /\ \A i \in 2..Len(hItems) :
                   /\ Cardinality(Extra(i)) = 1
                   /\ Extra(i) \subseteq {K_PID, K_MEDIA_NAME, K_MEDIA_CLASS}
                   /\ \A key \in ObjectKeys(base) : Pattern(i)[key] = base[key]
                   /\ Pattern(i)[Key(i)] = Read(hNode, Key(i))
                   /\ \A j \in 2..(i - 1) : C14_Rank(Key(j)) < C14_Rank(Key(i))
            /\ (hGranular /\ hNode = MkNode("Firefox", Absent, "42", Absent, Absent)) =>
                   /\ [i \in 1..Len(hItems) |-> hItems[i].name]
                          = <<"Firefox", "Firefox (42)">>
                   /\ \A i \in 1..Len(hItems) : K_NAME \in ObjectKeys(Pattern(i))

\* C14's case: a node holding all five keys, with granular selection, gave
\* the base item and the three refinements.
C14_Witness ==
    /\ hGranular
    /\ ObjectKeys(hNode) = Keys
    /\ [i \in 1..Len(hItems) |-> hItems[i].name]
           = <<"Firefox", "Firefox (42)", "Firefox [Playback]",
               "Firefox [Stream/Output/Audio]">>

\* The items before the removal of duplicates: the two special items, then
\* the items of every node in catalog order.
C15_Built ==
    <<[name |-> "None", value |-> SpecialSource("None")],
      [name |-> "Entire System", value |-> SpecialSource("Entire System")]>>
    \o Flat([i \in 1..Len(hTargets) |->
                 mapToAudioItem(NodeSource(hTargets[i]), hGranular)])

\* C15: the final candidate list holds no two items with the same label;
\* it holds, in the order built, for every label the first item built with
\* it, whatever the patterns of the later items with that label.
\* (SpecOptions)
C15_FirstOfEachLabel ==
    hOptions # <<>> =>
        LET First(i) == \A j \in 1..(i - 1) : C15_Built[j].name # C15_Built[i].name
            Firsts == {i \in 1..Len(C15_Built) : First(i)}
            Place(j) == CHOOSE i \in Firsts : C15_Built[i].name = hOptions[j].name
        IN  /\ \A i, j \in 1..Len(hOptions) :
                   hOptions[i].name = hOptions[j].name => i = j
            /\ Len(hOptions) = Cardinality(Firsts)
            /\ \A j \in 1..Len(hOptions) :
                   /\ \E i \in Firsts : C15_Built[i].name = hOptions[j].name
                   /\ hOptions[j] = C15_Built[Place(j)]
                   /\ \A k \in 1..(j - 1) : Place(k) < Place(j)

\* C15's case: Chrome by name, then a node whose binary is called Chrome: the
\* label Chrome is kept once, with the pattern of the first.
C15_Witness ==
    /\ hGranular
    /\ hTargets = <<MkNode("Chrome", Absent, "1", Absent, Absent),
                    MkNode(Absent, "Chrome", Absent, Absent, Absent)>>
    /\ [i \in 1..Len(hOptions) |-> hOptions[i].name]
           = <<"None", "Entire System", "Chrome", "Chrome (1)", "Chrome (undefined)">>
    /\ hOptions[3].value.node = Spread(EmptyObject, K_NAME, "Chrome")

\* What C16 expects in a sub-object for the settings s.
C16_Fields(s) ==
    [framerate |-> Number(s.fps),
     width |-> RoundWidth(Number(s.resolution)),
     height |-> Number(s.resolution),
     pixelCount |-> RoundWidth(Number(s.resolution)) * Number(s.resolution)]

\* C16: the hook leaves an options object as the host built it while
\* currentSettings is null; once a submission has set currentSettings, every
\* object built gets the three bitrate fields overwritten and the frame rate,
\* width, height and pixelCount of currentSettings written into its capture
\* sub-object and, if it has one, its encode sub-object.  (SpecQuality)
C16_HookPatchesAfterSubmission ==
    [][\A raw \in RawOptions :
          ConstructOptions(raw) =>
              IF currentSettings = <<>>
              THEN opts' = <<raw>>
              ELSE /\ opts'[1].bitrateMin = 500000
                   /\ opts'[1].bitrateMax = 8000000
                   /\ opts'[1].bitrateTarget = 600000
                   /\ opts'[1].capture = C16_Fields(currentSettings[1])
                   /\ opts'[1].encode =
                          IF raw.encode = <<>> THEN <<>>
                          ELSE <<C16_Fields(currentSettings[1])>>]_vars

\* C16's case: a second dialog is open after a submission of 720 / 30, and an
\* options object with an encode sub-object built meanwhile holds 1280 x 720
\* at 30 in both sub-objects.
C16_Witness ==
    /\ modal = "open"
    /\ currentSettings # <<>>
    /\ currentSettings[1].resolution = "720"
    /\ currentSettings[1].fps = "30"
    /\ opts # <<>>
    /\ opts[1].encode # <<>>
    /\ opts[1].encode[1] = [framerate |-> 30, width |-> 1280, height |-> 720,
                             pixelCount |-> 921600]
    /\ opts[1].capture = opts[1].encode[1]
    /\ opts[1].bitrateMax = 8000000

\* q is a narrower refinement of the pattern p: it holds p's keys with p's
\* values, and more keys.
C17_Refines(q, p) ==
    /\ ObjectKeys(p) \subseteq ObjectKeys(q)
    /\ ObjectKeys(p) # ObjectKeys(q)
    /\ \A key \in ObjectKeys(p) : q[key] = p[key]

\* p is an entry of the Selection list sel.
C17_Holds(sel, p) == sel.kind = "list" /\ \E i \in 1..Len(sel.list) : sel.list[i] = p

\* C17: whenever the Selection list holds a broad pattern and a narrower
\* refinement of it, a click on the broad candidate removes the broad entry
\* and leaves the narrow one in the list; C17_Witness is a click sequence
\* that gets there.  (SpecSelect)
C17_BroadLeavesNarrow ==
    [][\A c \in OptionValues :
          (/\ c.kind = "node"
           /\ sToggles' = Append(sToggles, c)
           /\ C17_Holds(settings.audioSources, c.node))
          => /\ ~C17_Holds(settings'.audioSources, c.node)
             /\ \A q \in {o.node : o \in OptionValues} :
                    (C17_Refines(q, c.node) /\ C17_Holds(settings.audioSources, q))
                    => C17_Holds(settings'.audioSources, q)]_vars

\* C17's case: "Firefox (42)" was clicked, then "Firefox", which put both in
\* the list, then "Firefox" again: the narrow entry alone is left.
C17_Witness ==
    /\ sToggles = <<NodeSource(Spread(FirefoxByName, K_PID, "42")),
                    NodeSource(FirefoxByName), NodeSource(FirefoxByName)>>
    /\ settings.audioSources.kind = "list"
    /\ settings.audioSources.list = <<Spread(FirefoxByName, K_PID, "42")>>

\* C18: a handler calls start or startSystem only if it is a submit (didSubmit
\* turns true), and then once; list is called only when the settings view
\* mounts; the timer is scheduled only by a submit; and the handlers in which
\* a start, an enumeration or applyConstraints fails call nothing and
\* schedule nothing.  (Spec)
C18_StartOnlyAtSubmitNoRetry ==
    [][LET Starts == {i \in 1..Len(issued') : issued'[i].fn \in {"start", "startSystem"}}
           Lists == {i \in 1..Len(issued') : issued'[i].fn = "list"}
       IN  /\ Starts # {} => (~didSubmit /\ didSubmit')
           /\ Cardinality(Starts) <= 1
           /\ Lists # {} => (picker = "unmounted" /\ selected = Undefined /\ selected' # Undefined)
           /\ (timer' = "scheduled" /\ timer # "scheduled") => (~didSubmit /\ didSubmit')
           /\ startSettles(FALSE) => (issued' = <<>> /\ startCall' = "rejected")
           /\ (\E result \in ListResults : ~result.ok /\ listSettles(result))
                  => (issued' = <<>> /\ picker' = "loaded")
           /\ timerFires("rejects") => (issued' = <<>> /\ timer' = "none")]_vars

\* C18's case: a submission whose start failed and whose applyConstraints
\* failed, with nothing called since.
C18_Witness ==
    /\ didSubmit
    /\ startCall = "rejected"
    /\ timerOutcome = "logged"
    /\ timer = "none"
    /\ issued = <<>>

\* C19: off Linux no handler ever calls the backend: no list, start,
\* startSystem or stop.  (Spec)
C19_NoBackendCallOffLinux == ~isLinux => issued = <<>>

\* C19's case: on Windows, after a submission, the STREAM_CLOSE event of the
\* local user's own stream was handled.
C19_Witness ==
    /\ platform = "windows"
    /\ didSubmit
    /\ promise = "resolved"
    /\ lastEvent = <<<<"c", ":", "7", ":", "1">>>>

\* C20: start is never called with an empty list of patterns.  (Spec)
C20_StartNeverEmpty ==
    \A i \in 1..Len(issued) : issued[i].fn = "start" => issued[i].arg # <<>>

\* C21: a Go Live click whose handler fails before submit (reading or
\* patching the connection throws: the promise is rejected, no timer is
\* scheduled) leaves currentSettings as it was before the click.  (Spec)
C21_FailedGoLiveKeepsCurrentSettings ==
    [][(/\ goLive("throws")
        /\ ~didSubmit'
        /\ promise' = "rejected"
        /\ timer' = timer)
       => currentSettings' = currentSettings]_vars

\* C22: in every Selection list no entry matches an entry added after it:
\* hasMatchingProps(list[i], list[j]) is false for all i < j, so the list
\* never holds two equal patterns.  (SpecSelect)
C22_NoEntryMatchesLater ==
    settings.audioSources.kind = "list" =>
        LET list == settings.audioSources.list
        IN  \A i, j \in 1..Len(list) :
                i < j => /\ ~hasMatchingProps(list[i], list[j])
                         /\ list[i] # list[j]

\* C22's case: a list of two entries of which the later one matches the
\* earlier one, but not the earlier one the later.
C22_Witness ==
    /\ settings.audioSources.kind = "list"
    /\ settings.audioSources.list =
           <<Spread(FirefoxByName, K_PID, "42"), FirefoxByName>>
    /\ hasMatchingProps(settings.audioSources.list[2], settings.audioSources.list[1])

\* C23: after a submit that calls the backend, the picker's promise is
\* pending for as long as the start call is, it is resolved only when that
\* call has completed, and the close that follows the submit does not reject
\* it.  (Spec)
C23_ResolvesAfterStart ==
    (didSubmit /\ startCall # "none") =>
        /\ startCall = "pending" => promise = "pending"
        /\ promise = "resolved" => startCall = "resolved"
        /\ promise # "rejected"

\* C23's case: Go Live with the Selection Entire System has closed the dialog
\* and its startSystem call is still pending.
C23_Witness ==
    /\ didSubmit
    /\ modal = "closed"
    /\ startCall = "pending"
    /\ promise = "pending"
    /\ pick # <<>>
    /\ pick[1].audioSources.kind = "Entire System"

\* C24: every step that changes the granular-selection setting leaves the
\* Selection None, and in every state with the setting off each pattern of
\* the Selection list has the single key application.name.  (SpecSelect)
C24_NoStaleGranularPattern ==
    [][/\ granularSelect' # granularSelect => settings'.audioSources.kind = "None"
       /\ (~granularSelect' /\ settings'.audioSources.kind = "list") =>
              \A i \in 1..Len(settings'.audioSources.list) :
                  ObjectKeys(settings'.audioSources.list[i]) = {K_NAME}]_vars

\* C24's case: "Firefox (42)" was selected with the setting on, the setting
\* was switched off, and "Firefox" selected afterwards.
C24_Witness ==
    /\ ~granularSelect
    /\ sToggles = <<NodeSource(Spread(FirefoxByName, K_PID, "42")), GranularMark,
                    NodeSource(FirefoxByName)>>
    /\ settings.audioSources.kind = "list"
    /\ settings.audioSources.list = <<FirefoxByName>>

=============================================================================
